---- MODULE Spec2Model ----
(***************************************************************************)
(* A model of package motex: a demoteable and promoteable exclusion lock   *)
(* built from a sync.Mutex (the write gate w), a sync.RWMutex (the         *)
(* read/write gate r) and, in the variant of src/unnamed/part_000, a       *)
(* second sync.Mutex (the guard g).                                        *)
(*                                                                         *)
(* Every Motex method is the sequence of calls on w, r and g that its body *)
(* makes.  A call on a sync.Mutex is one atomic step; a call on the        *)
(* sync.RWMutex is the sequence of atomic steps of Go's implementation     *)
(* (readerCount, readerWait, the two semaphores and the inner mutex), so   *)
(* that writer preference, the wake-up of waiting readers and the fatal    *)
(* errors of the runtime are what the library does.                        *)
(***************************************************************************)
EXTENDS Integers, Sequences, FiniteSets, TLC

VARIABLES
    variant,      \* which source file is built: "motex.go" or "part_000"
    w,            \* Motex.w: TRUE when the mutex is locked
    g,            \* Motex.g (part_000 only): TRUE when the mutex is locked
    rw,           \* Motex.r.w: the RWMutex's inner writer mutex
    readerCount,  \* Motex.r.readerCount
    readerWait,   \* Motex.r.readerWait
    writerSem,    \* Motex.r.writerSem
    readerSem,    \* Motex.r.readerSem
    routine,      \* routine[t]: the instructions goroutine t runs
    ip,           \* ip[t]: index in routine[t] of the current instruction
    idx,          \* idx[t]: index of the current call inside the Motex method
    mpc,          \* mpc[t]: position inside the current sync call
    rtmp,         \* rtmp[t]: the local r of RWMutex.Lock / RWMutex.Unlock
    state,        \* the tests' shared counter
    old,          \* old[t]: the tests' local copy of state
    fatal         \* "" or the message of the runtime's fatal error

vars == <<variant, w, g, rw, readerCount, readerWait, writerSem, readerSem,
          routine, ip, idx, mpc, rtmp, state, old, fatal>>

lockVars == <<w, g, rw, readerCount, readerWait, writerSem, readerSem>>

----------------------------------------------------------------------------
(* Bounds of the model. *)

NThreads == 3

MaxCalls == 4

MaxPairs == 2

NFair == 2

MaxNest == 2

MaxReaders == 2

Threads == 1..NThreads

(* sync.rwmutexMaxReaders, 1 << 30. *)
rwmutexMaxReaders == 1073741824

Variants == {"motex.go", "part_000"}

Methods == {"Lock", "Unlock", "Demote", "Promote", "RLock", "RUnlock"}

----------------------------------------------------------------------------
(* The Motex methods: the calls each makes, in order. *)

(* A Lock that leaves out the write gate. *)
LockNoWriteGate == <<"r.Lock">>

(* A Lock that takes the two gates in the other order. *)
LockGatesReversed == <<"r.Lock", "w.Lock">>

Lock == <<"w.Lock", "r.Lock">>

(* An Unlock that releases the write gate alone. *)
UnlockWriteGateOnly == <<"w.Unlock">>

Unlock == <<"r.Unlock", "w.Unlock">>

(* A Demote that does not take the shared acquisition. *)
DemoteNoShared ==
    IF variant = "part_000"
    THEN <<"r.Unlock", "g.Lock">>
    ELSE <<"r.Unlock">>

(* A Demote that does not release the exclusive acquisition first. *)
DemoteNoRelease ==
    IF variant = "part_000"
    THEN <<"r.RLock", "g.Lock">>
    ELSE <<"r.RLock">>

Demote ==
    IF variant = "part_000"
    THEN <<"r.Unlock", "r.RLock", "g.Lock">>
    ELSE <<"r.Unlock", "r.RLock">>

(* A Promote that does not take the read/write gate exclusively. *)
PromoteNoExclusive ==
    IF variant = "part_000"
    THEN <<"r.RUnlock", "g.Unlock">>
    ELSE <<"r.RUnlock">>

(* A Promote that gives up the write gate while it takes the read/write *)
(* gate again.                                                          *)
PromoteReleasesWriteGate ==
    IF variant = "part_000"
    THEN <<"r.RUnlock", "w.Unlock", "w.Lock", "r.Lock", "g.Unlock">>
    ELSE <<"r.RUnlock", "w.Unlock", "w.Lock", "r.Lock">>

(* A Promote that never unlocks the guard. *)
PromoteKeepsGuard == <<"r.RUnlock", "r.Lock">>

(* A Promote that does not release its shared acquisition first. *)
PromoteNoRelease ==
    IF variant = "part_000"
    THEN <<"r.Lock", "g.Unlock">>
    ELSE <<"r.Lock">>

Promote ==
    IF variant = "part_000"
    THEN <<"r.RUnlock", "r.Lock", "g.Unlock">>
    ELSE <<"r.RUnlock", "r.Lock">>

RLock == <<"r.RLock">>

(* An RUnlock that releases the gate as a writer would. *)
RUnlockAsWriter == <<"r.Unlock">>

RUnlock == <<"r.RUnlock">>

Steps(m) ==
    CASE m = "Lock" -> Lock
      [] m = "Unlock" -> Unlock
      [] m = "Demote" -> Demote
      [] m = "Promote" -> Promote
      [] m = "RLock" -> RLock
      [] m = "RUnlock" -> RUnlock

----------------------------------------------------------------------------
(* Positions of a goroutine. *)

Finished(t) == ip[t] > Len(routine[t])

Instr(t) == routine[t][ip[t]]

InMethod(t) == ~Finished(t) /\ Instr(t) \in Methods

Prim(t) == Steps(Instr(t))[idx[t]]

At(t, p, l) == fatal = "" /\ InMethod(t) /\ Prim(t) \in p /\ mpc[t] = l

(* The current sync call returns: the method goes on to its next call, or *)
(* returns to the routine.                                                *)
Return(t) ==
    /\ mpc' = [mpc EXCEPT ![t] = "start"]
    /\ IF idx[t] < Len(Steps(Instr(t)))
       THEN /\ idx' = [idx EXCEPT ![t] = idx[t] + 1]
            /\ ip' = ip
       ELSE /\ idx' = [idx EXCEPT ![t] = 1]
            /\ ip' = [ip EXCEPT ![t] = ip[t] + 1]

Goto(t, l) ==
    /\ mpc' = [mpc EXCEPT ![t] = l]
    /\ UNCHANGED <<ip, idx>>

(* runtime fatal: the process ends, no goroutine takes another step. *)
Fatal(msg) ==
    /\ fatal' = msg
    /\ UNCHANGED <<ip, idx, mpc>>

----------------------------------------------------------------------------
(* sync.Mutex, for w and g. *)

MutexLock(t) ==
    /\ At(t, {"w.Lock", "g.Lock"}, "start")
    /\ IF Prim(t) = "w.Lock"
       THEN ~w /\ w' = TRUE /\ g' = g
       ELSE ~g /\ g' = TRUE /\ w' = w
    /\ Return(t)
    /\ UNCHANGED <<variant, rw, readerCount, readerWait, writerSem, readerSem,
                   routine, rtmp, state, old, fatal>>

MutexUnlock(t) ==
    /\ At(t, {"w.Unlock", "g.Unlock"}, "start")
    /\ IF (IF Prim(t) = "w.Unlock" THEN w ELSE g)
       THEN /\ IF Prim(t) = "w.Unlock"
               THEN w' = FALSE /\ g' = g
               ELSE g' = FALSE /\ w' = w
            /\ Return(t)
            /\ fatal' = fatal
       ELSE /\ Fatal("sync: unlock of unlocked mutex")
            /\ UNCHANGED <<w, g>>
    /\ UNCHANGED <<variant, rw, readerCount, readerWait, writerSem, readerSem,
                   routine, rtmp, state, old>>

----------------------------------------------------------------------------
(* sync.RWMutex, for r. *)

(* RWMutex.Lock: rw.w.Lock(); r := readerCount.Add(-rwmutexMaxReaders) +   *)
(* rwmutexMaxReaders; if r != 0 && readerWait.Add(r) != 0 then wait on     *)
(* writerSem.                                                              *)
RWMutexLock(t) ==
    /\ \/ /\ At(t, {"r.Lock"}, "start")
          /\ ~rw
          /\ rw' = TRUE
          /\ Goto(t, "announce")
          /\ UNCHANGED <<readerCount, readerWait, writerSem, rtmp>>
       \/ /\ At(t, {"r.Lock"}, "announce")
          /\ readerCount' = readerCount - rwmutexMaxReaders
          /\ IF readerCount # 0
             THEN /\ rtmp' = [rtmp EXCEPT ![t] = readerCount]
                  /\ Goto(t, "wait")
             ELSE /\ rtmp' = rtmp
                  /\ Return(t)
          /\ UNCHANGED <<rw, readerWait, writerSem>>
       \/ /\ At(t, {"r.Lock"}, "wait")
          /\ readerWait' = readerWait + rtmp[t]
          /\ rtmp' = [rtmp EXCEPT ![t] = 0]
          /\ IF readerWait + rtmp[t] # 0
             THEN Goto(t, "sem")
             ELSE Return(t)
          /\ UNCHANGED <<rw, readerCount, writerSem>>
       \/ /\ At(t, {"r.Lock"}, "sem")
          /\ writerSem > 0
          /\ writerSem' = writerSem - 1
          /\ Return(t)
          /\ UNCHANGED <<rw, readerCount, readerWait, rtmp>>
    /\ UNCHANGED <<variant, w, g, readerSem, routine, state, old, fatal>>

(* RWMutex.Unlock: r := readerCount.Add(rwmutexMaxReaders); fatal if       *)
(* r >= rwmutexMaxReaders; release readerSem r times; rw.w.Unlock().       *)
RWMutexUnlock(t) ==
    /\ \/ /\ At(t, {"r.Unlock"}, "start")
          /\ readerCount' = readerCount + rwmutexMaxReaders
          /\ IF readerCount + rwmutexMaxReaders >= rwmutexMaxReaders
             THEN /\ Fatal("sync: Unlock of unlocked RWMutex")
                  /\ rtmp' = rtmp
             ELSE /\ rtmp' = [rtmp EXCEPT ![t] = readerCount + rwmutexMaxReaders]
                  /\ Goto(t, IF readerCount + rwmutexMaxReaders > 0
                             THEN "wake" ELSE "unlockw")
                  /\ fatal' = fatal
          /\ UNCHANGED <<rw, readerSem>>
       \/ /\ At(t, {"r.Unlock"}, "wake")
          /\ readerSem' = readerSem + 1
          /\ rtmp' = [rtmp EXCEPT ![t] = rtmp[t] - 1]
          /\ Goto(t, IF rtmp[t] > 1 THEN "wake" ELSE "unlockw")
          /\ UNCHANGED <<rw, readerCount, fatal>>
       \/ /\ At(t, {"r.Unlock"}, "unlockw")
          /\ IF rw
             THEN rw' = FALSE /\ Return(t) /\ fatal' = fatal
             ELSE rw' = rw /\ Fatal("sync: unlock of unlocked mutex")
          /\ UNCHANGED <<readerCount, readerSem, rtmp>>
    /\ UNCHANGED <<variant, w, g, readerWait, writerSem, routine, state, old>>

(* RWMutex.RLock: if readerCount.Add(1) < 0, a writer is pending: wait on  *)
(* readerSem.                                                              *)
RWMutexRLock(t) ==
    /\ \/ /\ At(t, {"r.RLock"}, "start")
          /\ readerCount' = readerCount + 1
          /\ IF readerCount + 1 < 0
             THEN Goto(t, "sem")
             ELSE Return(t)
          /\ readerSem' = readerSem
       \/ /\ At(t, {"r.RLock"}, "sem")
          /\ readerSem > 0
          /\ readerSem' = readerSem - 1
          /\ Return(t)
          /\ readerCount' = readerCount
    /\ UNCHANGED <<variant, w, g, rw, readerWait, writerSem, routine, rtmp,
                   state, old, fatal>>

(* RWMutex.RUnlock: if r := readerCount.Add(-1); r < 0 then rUnlockSlow(r): *)
(* fatal if r+1 == 0 or r+1 == -rwmutexMaxReaders; if readerWait.Add(-1)    *)
(* == 0, release writerSem.                                                 *)
RWMutexRUnlock(t) ==
    /\ \/ /\ At(t, {"r.RUnlock"}, "start")
          /\ readerCount' = readerCount - 1
          /\ IF readerCount - 1 >= 0
             THEN Return(t) /\ fatal' = fatal
             ELSE IF readerCount = 0 \/ readerCount = -rwmutexMaxReaders
                  THEN Fatal("sync: RUnlock of unlocked RWMutex")
                  ELSE Goto(t, "slow") /\ fatal' = fatal
          /\ UNCHANGED <<readerWait, writerSem>>
       \/ /\ At(t, {"r.RUnlock"}, "slow")
          /\ readerWait' = readerWait - 1
          /\ writerSem' = IF readerWait - 1 = 0 THEN writerSem + 1 ELSE writerSem
          /\ Return(t)
          /\ UNCHANGED <<readerCount, fatal>>
    /\ UNCHANGED <<variant, w, g, rw, readerSem, routine, rtmp, state, old>>

(* One step of goroutine t inside a Motex method. *)
MotexStep(t) ==
    \/ MutexLock(t)
    \/ MutexUnlock(t)
    \/ RWMutexLock(t)
    \/ RWMutexUnlock(t)
    \/ RWMutexRLock(t)
    \/ RWMutexRUnlock(t)

----------------------------------------------------------------------------
(* The statements of the tests' routines on the shared counter. *)

DataInstrs == {"inc", "dec", "read", "write1", "write2"}

(* The write of old+1 reads state again instead of using the copy. *)
DataStepRereads(t) ==
    /\ fatal = ""
    /\ ~Finished(t)
    /\ Instr(t) \in DataInstrs
    /\ state' = CASE Instr(t) = "inc" -> state + 1
                  [] Instr(t) = "dec" -> state - 1
                  [] Instr(t) = "read" -> state
                  [] Instr(t) = "write1" -> state + 1
                  [] Instr(t) = "write2" -> state + 2
    /\ old' = IF Instr(t) = "read" THEN [old EXCEPT ![t] = state] ELSE old
    /\ ip' = [ip EXCEPT ![t] = ip[t] + 1]
    /\ UNCHANGED <<variant, w, g, rw, readerCount, readerWait, writerSem,
                   readerSem, routine, idx, mpc, rtmp, fatal>>

DataStep(t) ==
    /\ fatal = ""
    /\ ~Finished(t)
    /\ Instr(t) \in DataInstrs
    /\ state' = CASE Instr(t) = "inc" -> state + 1
                  [] Instr(t) = "dec" -> state - 1
                  [] Instr(t) = "read" -> state
                  [] Instr(t) = "write1" -> old[t] + 1
                  [] Instr(t) = "write2" -> old[t] + 2
    /\ old' = IF Instr(t) = "read" THEN [old EXCEPT ![t] = state] ELSE old
    /\ ip' = [ip EXCEPT ![t] = ip[t] + 1]
    /\ UNCHANGED <<variant, w, g, rw, readerCount, readerWait, writerSem,
                   readerSem, routine, idx, mpc, rtmp, fatal>>

(* TestMotex: the three writer routines. *)
increment == <<"Lock", "inc", "Unlock">>

demotedIncrement == <<"Lock", "Demote", "read", "Promote", "write1", "Unlock">>

decrementAndDemotedIncrement ==
    <<"Lock", "dec", "Demote", "read", "Promote", "write2", "Unlock">>

(* The sequence of the specification: the write is issued before Promote. *)
specIncrement == <<"Lock", "Demote", "read", "write1", "Promote", "Unlock">>

(* A reader: one RLock/RUnlock pair. *)
reader == <<"RLock", "RUnlock">>

WriterRoutines ==
    <<increment, demotedIncrement, decrementAndDemotedIncrement, specIncrement>>

LegalRoutines == WriterRoutines \o <<reader>>

IsWriter(t) == Len(routine[t]) > 0 /\ routine[t][1] = "Lock"

(* The assignments of the routines of list rs to the first n goroutines, *)
(* one per goroutine, up to a renaming of the goroutines; the other       *)
(* goroutines are not started.                                            *)
Assignments(n, rs) ==
    { [t \in Threads |-> IF t <= n THEN rs[f[t]] ELSE << >>] :
        f \in { h \in [1..n -> 1..Len(rs)] :
                  \A a, b \in 1..n : a < b => h[a] <= h[b] } }

(* A fresh Motex (the zero value) and goroutines about to start. *)
InitWith(rts) ==
    /\ variant \in Variants
    /\ w = FALSE
    /\ g = FALSE
    /\ rw = FALSE
    /\ readerCount = 0
    /\ readerWait = 0
    /\ writerSem = 0
    /\ readerSem = 0
    /\ routine \in rts
    /\ ip = [t \in Threads |-> 1]
    /\ idx = [t \in Threads |-> 1]
    /\ mpc = [t \in Threads |-> "start"]
    /\ rtmp = [t \in Threads |-> 0]
    /\ state = 0
    /\ old = [t \in Threads |-> 0]
    /\ fatal = ""

Init == InitWith(Assignments(NThreads, LegalRoutines))

Next == \E t \in Threads : MotexStep(t) \/ DataStep(t)

Spec == Init /\ [][Next]_vars

----------------------------------------------------------------------------
(* What a goroutine has called and what has returned, read off its routine *)
(* and its position.                                                       *)

Count(s, m) == Cardinality({i \in 1..Len(s) : s[i] = m})

(* The calls of method m by goroutine t that have returned. *)
Returned(t, m) == Count(SubSeq(routine[t], 1, ip[t] - 1), m)

(* Goroutine t has taken a step of its current method call. *)
Begun(t) == InMethod(t) /\ (idx[t] > 1 \/ mpc[t] # "start")

(* The calls of method m that goroutine t has made. *)
Called(t, m) == Returned(t, m) + (IF Begun(t) /\ Instr(t) = m THEN 1 ELSE 0)

(* Lock has returned, Unlock has not yet returned. *)
InSpan(t) == Returned(t, "Lock") > Returned(t, "Unlock")

(* Lock or Promote has returned, Demote or Unlock has not been called. *)
WriteLocked(t) ==
    Returned(t, "Lock") + Returned(t, "Promote")
        > Called(t, "Demote") + Called(t, "Unlock")

(* Demote has returned, Promote has not been called. *)
Demoted(t) == Returned(t, "Demote") > Called(t, "Promote")

(* The shared acquisitions of goroutine t: RLock returned, RUnlock not *)
(* yet called.                                                          *)
ReadsHeld(t) == Returned(t, "RLock") - Called(t, "RUnlock")

AllDone == \A t \in Threads : Finished(t)

(* Goroutine t waits: its next step is not enabled. *)
Blocked(t) ==
    /\ InMethod(t)
    /\ \/ Prim(t) = "w.Lock" /\ w
       \/ Prim(t) = "g.Lock" /\ g
       \/ Prim(t) = "r.Lock" /\ mpc[t] = "start" /\ rw
       \/ Prim(t) = "r.Lock" /\ mpc[t] = "sem" /\ writerSem = 0
       \/ Prim(t) = "r.RLock" /\ mpc[t] = "sem" /\ readerSem = 0

----------------------------------------------------------------------------
(* C1. Writer mutual exclusion: at most one goroutine is inside a          *)
(* Lock()...Unlock() span, also while that goroutine is demoted or inside  *)
(* Demote() or Promote(); no other goroutine's Lock() has returned between *)
(* a writer's Demote() and its Promote().                                  *)
C1_WriterMutualExclusion ==
    \A t, u \in Threads : (t # u /\ InSpan(t)) => ~InSpan(u)

(* A writer is demoted, a reader holds the lock with it, and another *)
(* writer waits inside Lock().                                       *)
C1_Witness ==
    \E t, u, v \in Threads :
        /\ Demoted(t)
        /\ ~Finished(u) /\ Instr(u) = "Lock" /\ Blocked(u)
        /\ ReadsHeld(v) = 1

(* C2. Atomic read-modify-write: when every goroutine has run its writer  *)
(* routine (increment, demotedIncrement, decrementAndDemotedIncrement, or *)
(* the variant that writes before Promote), state is the number of        *)
(* routine executions.                                                    *)
C2_NoLostUpdate ==
    AllDone => state = Cardinality({t \in Threads : IsWriter(t)})

(* All finished, with two different demoting routines among them. *)
C2_Witness ==
    /\ AllDone
    /\ \E t, u \in Threads :
          /\ routine[t] = demotedIncrement
          /\ routine[u] = decrementAndDemotedIncrement
    /\ state >= 2

(* C3. Reader/writer exclusion: while a goroutine holds the lock in the   *)
(* exclusive WriteLocked mode, no goroutine holds a shared acquisition    *)
(* obtained by RLock(); Promote() does not return while a reader holds.   *)
C3_ReaderWriterExclusion ==
    \A t, u \in Threads : WriteLocked(t) => ReadsHeld(u) = 0

(* Promote() has returned to a writer while a reader waits inside RLock(). *)
C3_Witness ==
    \E t, u \in Threads :
        /\ WriteLocked(t)
        /\ Returned(t, "Promote") = 1
        /\ ~Finished(u) /\ Instr(u) = "RLock" /\ mpc[u] = "sem"

----------------------------------------------------------------------------
(* One goroutine on a fresh Motex. *)

(* TestMotexDoesntDeadlock. *)
TestMotexDoesntDeadlock ==
    <<"Lock", "Demote", "Promote", "Demote", "RLock", "RLock", "RUnlock",
      "RUnlock", "Promote", "Unlock", "RLock", "RLock", "RUnlock", "RUnlock">>

Repeat(m, k) == [i \in 1..k |-> m]

(* A demoted holder takes and releases k extra shared acquisitions. *)
NestedDemoted(k) ==
    <<"Lock", "Demote">> \o Repeat("RLock", k) \o Repeat("RUnlock", k)
        \o <<"Promote", "Unlock">>

(* Every sequence of at most n calls, as the misuse tests make them. *)
CallSequences(n) == UNION { [1..k -> Methods] : k \in 0..n }

SingleRoutines ==
    CallSequences(MaxCalls) \cup {TestMotexDoesntDeadlock}
        \cup { NestedDemoted(k) : k \in 0..MaxNest }

InitSingle ==
    InitWith({ [t \in Threads |-> IF t = 1 THEN r ELSE << >>] :
                 r \in SingleRoutines })

NextCalls == \E t \in Threads : MotexStep(t)

SpecSingle == InitSingle /\ [][NextCalls]_vars

(* The state machine of the specification (section 4.3) for one caller:  *)
(* the state after a call, "Illegal" once a call broke its precondition  *)
(* or could only wait for the caller itself.                             *)
LogicalStep(L, m) ==
    CASE L.mode = "Illegal" -> L
      [] m = "Lock" /\ L.mode = "Unlocked" /\ L.reads = 0 ->
            [L EXCEPT !.mode = "WriteLocked"]
      [] m = "Unlock" /\ L.mode = "WriteLocked" ->
            [L EXCEPT !.mode = "Unlocked"]
      [] m = "Demote" /\ L.mode = "WriteLocked" ->
            [L EXCEPT !.mode = "Demoted"]
      [] m = "Promote" /\ L.mode = "Demoted" /\ L.reads = 0 ->
            [L EXCEPT !.mode = "WriteLocked"]
      [] m = "RLock" /\ L.mode \in {"Unlocked", "Demoted"} ->
            [L EXCEPT !.reads = L.reads + 1]
      [] m = "RUnlock" /\ L.mode \in {"Unlocked", "Demoted"} /\ L.reads > 0 ->
            [L EXCEPT !.reads = L.reads - 1]
      [] OTHER -> [L EXCEPT !.mode = "Illegal"]

RECURSIVE Logical(_)
Logical(s) ==
    IF s = << >>
    THEN [mode |-> "Unlocked", reads |-> 0]
    ELSE LogicalStep(Logical(SubSeq(s, 1, Len(s) - 1)), s[Len(s)])

(* The logical state in which goroutine t makes its i-th call. *)
LogicalBefore(t, i) == Logical(SubSeq(routine[t], 1, i - 1))

(* Goroutine t is at, or past, a call of m made in a logical state of *)
(* mode md with n shared acquisitions of its own.                     *)
CallIn(t, i, m, mds) ==
    /\ i <= Len(routine[t])
    /\ routine[t][i] = m
    /\ LogicalBefore(t, i).mode \in mds

(* The call at position i never returns, and while it runs the goroutine *)
(* does not wait: it stops only by the fatal error.                      *)
EndsFatal(t, i) ==
    /\ ip[t] <= i
    /\ ip[t] = i => (fatal # "" \/ ENABLED MotexStep(t))

----------------------------------------------------------------------------
(* TestIncorrectMotexUse: the read and the write are under two different *)
(* acquisitions.                                                         *)

nonAtomicRLock == <<"RLock", "read", "RUnlock", "Lock", "write1", "Unlock">>

nonAtomicLock == <<"Lock", "read", "Unlock", "Lock", "write1", "Unlock">>

nonAtomicDemoted ==
    <<"Lock", "Demote", "read", "Promote", "Unlock", "Lock", "write1", "Unlock">>

NonAtomicRoutines == <<nonAtomicRLock, nonAtomicLock, nonAtomicDemoted>>

(* Two or more goroutines are started. *)
InitNonAtomic ==
    InitWith(UNION { Assignments(n, NonAtomicRoutines) : n \in 2..NThreads })

SpecNonAtomic == InitNonAtomic /\ [][Next]_vars

----------------------------------------------------------------------------
(* Legal concurrent use without data: writers with any number of *)
(* Demote/Promote pairs, readers with RLock/RUnlock pairs.        *)

RECURSIVE Pairs(_, _, _)
Pairs(a, b, k) == IF k = 0 THEN << >> ELSE <<a, b>> \o Pairs(a, b, k - 1)

WriterPairs(k) == <<"Lock">> \o Pairs("Demote", "Promote", k) \o <<"Unlock">>

ReaderPairs(k) == Pairs("RLock", "RUnlock", k)

PairRoutines ==
    [k \in 1..(MaxPairs + 1) |-> WriterPairs(k - 1)]
        \o [k \in 1..MaxPairs |-> ReaderPairs(k)]

InitPairs == InitWith(Assignments(NFair, PairRoutines))

(* The scheduler runs every goroutine that can run. *)
Fairness == \A t \in Threads : WF_vars(MotexStep(t))

SpecFair == InitPairs /\ [][NextCalls]_vars /\ Fairness

----------------------------------------------------------------------------
(* C5. Lost updates without bridging: when the goroutines read state under *)
(* one acquisition, release, and write old+1 under a fresh Lock(), the     *)
(* final state never exceeds the number of goroutines and is less exactly  *)
(* when two of them wrote from the same value; the witness is a run that   *)
(* ends with state less than the number of goroutines.                     *)
C5_LostUpdates ==
    LET started == {t \in Threads : routine[t] # << >>}
        n == Cardinality(started)
    IN  AllDone =>
            /\ state >= 1
            /\ state <= n
            /\ state = n <=> {old[t] : t \in started} = 0..(n - 1)

(* All three routines have run and every update but one is lost. *)
C5_Witness ==
    /\ AllDone
    /\ {routine[t] : t \in Threads}
          = {nonAtomicRLock, nonAtomicLock, nonAtomicDemoted}
    /\ state = 1
    /\ state < Cardinality({t \in Threads : routine[t] # << >>})

(* C6. One goroutine on a fresh instance: the sequence of                 *)
(* TestMotexDoesntDeadlock, and every other sequence of calls that is     *)
(* legal for one caller (a demoted holder may take and release extra      *)
(* shared acquisitions), runs to completion: no call waits and none ends  *)
(* in a fatal error.                                                      *)
C6_SingleGoroutineCompletes ==
    Logical(routine[1]).mode # "Illegal" =>
        /\ fatal = ""
        /\ Finished(1) \/ ENABLED MotexStep(1)

(* TestMotexDoesntDeadlock has run to its end on the variant with the *)
(* guard.                                                             *)
C6_Witness ==
    /\ routine[1] = TestMotexDoesntDeadlock
    /\ Logical(routine[1]).mode = "Unlocked"
    /\ variant = "part_000"
    /\ Finished(1)
    /\ fatal = ""

(* C7. Deadlock freedom under legal concurrent use: never are all the     *)
(* unfinished goroutines waiting, no call ends in a fatal error, and under *)
(* fair scheduling every goroutine finishes its routine.                  *)
C7_NoDeadlock ==
    /\ [](fatal = "" /\ (AllDone \/ ENABLED NextCalls))
    /\ <>AllDone

(* A writer is inside its second Promote(), waiting for a reader that *)
(* holds the lock for the second time.                                 *)
C7_Witness ==
    \E t, u \in Threads :
        /\ routine[t] = WriterPairs(2)
        /\ Returned(t, "Promote") = 1 /\ Instr(t) = "Promote" /\ Blocked(t)
        /\ routine[u] = ReaderPairs(2)
        /\ Returned(u, "RLock") = 2 /\ ReadsHeld(u) = 1

(* C8. Unlock() misuse is fatal: one goroutine that calls Unlock() when   *)
(* the lock is not WriteLocked (never locked or already unlocked,         *)
(* demoted, or only read-locked) gets a fatal error; the call never       *)
(* returns.                                                               *)
C8_UnlockMisuseFatal ==
    \A i \in 1..Len(routine[1]) :
        CallIn(1, i, "Unlock", {"Unlocked", "Demoted"}) => EndsFatal(1, i)

(* Lock; Demote; Unlock has ended in the fatal error. *)
C8_Witness ==
    /\ routine[1] = <<"Lock", "Demote", "Unlock">>
    /\ ip[1] = 3
    /\ fatal = "sync: Unlock of unlocked RWMutex"

(* C9. RUnlock() misuse is fatal: one goroutine that calls RUnlock() with *)
(* no shared acquisition outstanding (never read-locked, already          *)
(* released, or exclusively held after Lock()) gets a fatal error.        *)
C9_RUnlockMisuseFatal ==
    \A i \in 1..Len(routine[1]) :
        /\ CallIn(1, i, "RUnlock", {"Unlocked", "WriteLocked"})
        /\ LogicalBefore(1, i).reads = 0
        => EndsFatal(1, i)

(* Lock; RUnlock has ended in the fatal error. *)
C9_Witness ==
    /\ routine[1] = <<"Lock", "RUnlock">>
    /\ ip[1] = 2
    /\ fatal = "sync: RUnlock of unlocked RWMutex"

(* C10. Promote() misuse is fatal: one goroutine that calls Promote() on  *)
(* a lock that is not locked, or that is WriteLocked (after Lock()        *)
(* without Demote(), or after a Promote()), gets a fatal error.           *)
C10_PromoteMisuseFatal ==
    \A i \in 1..Len(routine[1]) :
        /\ CallIn(1, i, "Promote", {"Unlocked", "WriteLocked"})
        /\ LogicalBefore(1, i).reads = 0
        => EndsFatal(1, i)

(* Lock; Demote; Promote; Promote has ended in the fatal error. *)
C10_Witness ==
    /\ routine[1] = <<"Lock", "Demote", "Promote", "Promote">>
    /\ ip[1] = 4
    /\ fatal = "sync: RUnlock of unlocked RWMutex"

(* C11. Demote() misuse is fatal: one goroutine that calls Demote() on a  *)
(* lock that is not WriteLocked (never locked, unlocked again, already    *)
(* demoted, or only read-locked) gets a fatal error.                      *)
C11_DemoteMisuseFatal ==
    \A i \in 1..Len(routine[1]) :
        CallIn(1, i, "Demote", {"Unlocked", "Demoted"}) => EndsFatal(1, i)

(* Lock; Demote; Demote has ended in the fatal error. *)
C11_Witness ==
    /\ routine[1] = <<"Lock", "Demote", "Demote">>
    /\ ip[1] = 3
    /\ fatal = "sync: Unlock of unlocked RWMutex"

(* C12. Only a demoted acquisition can be promoted: in motex.go, a        *)
(* goroutine whose only acquisition is a plain RLock() and that calls     *)
(* Promote() gets a fatal error; the call never returns.                  *)
C12_PromoteAfterRLockFatal ==
    variant = "motex.go" =>
        \A i \in 1..Len(routine[1]) :
            /\ CallIn(1, i, "Promote", {"Unlocked"})
            /\ LogicalBefore(1, i).reads = 1
            => EndsFatal(1, i)

(* C13. Reader release of a demoted slot is fatal: a goroutine that holds *)
(* the lock demoted, with no shared acquisition of its own, and calls     *)
(* RUnlock() gets a fatal error; the call never returns.                  *)
C13_RUnlockOfDemotedFatal ==
    \A i \in 1..Len(routine[1]) :
        /\ CallIn(1, i, "RUnlock", {"Demoted"})
        /\ LogicalBefore(1, i).reads = 0
        => EndsFatal(1, i)

(* C15. Release operations never block: under legal use a goroutine that *)
(* calls, or is inside, Unlock(), RUnlock() or Demote() can always take   *)
(* its next step, whatever the others do, and no step is fatal: the call  *)
(* runs to its end on the caller's steps alone, the shared acquisition    *)
(* and the guard acquisition inside Demote() included.                    *)
C15_ReleaseNeverBlocks ==
    \A t \in Threads :
        (InMethod(t) /\ Instr(t) \in {"Unlock", "RUnlock", "Demote"}) =>
            /\ fatal = ""
            /\ ENABLED MotexStep(t)

(* A writer is inside Demote(), about to take the guard, while a reader *)
(* holds the lock and another writer waits inside Lock().               *)
C15_Witness ==
    \E t, u, v \in Threads :
        /\ ~Finished(t) /\ Instr(t) = "Demote" /\ Prim(t) = "g.Lock"
        /\ ~Finished(u) /\ Instr(u) = "Lock" /\ Blocked(u)
        /\ ReadsHeld(v) = 1

(* The shared holders of the read/write gate, as readerCount counts them. *)
SharedHolders ==
    IF readerCount < 0 THEN readerCount + rwmutexMaxReaders ELSE readerCount

RECURSIVE Sum(_, _)
Sum(f, S) ==
    IF S = {} THEN 0
    ELSE LET x == CHOOSE y \in S : TRUE IN f[x] + Sum(f, S \ {x})

(* C18. Shared-slot accounting: under legal use, when no operation is     *)
(* mid-way, the shared holders of the read/write gate are the outstanding *)
(* RLock()s plus one for a demoted writer; at most one writer is demoted, *)
(* and a demoted writer holds the write gate.                             *)
C18_SharedSlotAccounting ==
    LET demoted == {t \in Threads : Demoted(t)}
    IN  /\ (\A t \in Threads : ~Begun(t)) =>
              SharedHolders
                = Sum([t \in Threads |-> ReadsHeld(t)], Threads)
                    + Cardinality(demoted)
        /\ Cardinality(demoted) <= 1
        /\ \A t \in demoted : w /\ InSpan(t)

(* No operation is mid-way; a writer is demoted and two readers hold. *)
C18_Witness ==
    /\ \A t \in Threads : ~Begun(t)
    /\ \E t \in Threads : Demoted(t)
    /\ SharedHolders = 3

----------------------------------------------------------------------------
(* A goroutine that promotes a plain shared acquisition, beside goroutines *)
(* that use the lock legally.                                              *)

plainPromote == <<"RLock", "Promote">>

GuardRoutines == <<WriterPairs(0), WriterPairs(1), reader>>

InitGuard ==
    InitWith({ [t \in Threads |-> IF t = 1 THEN plainPromote ELSE a[t]] :
                 a \in Assignments(NThreads, GuardRoutines) })

SpecGuard == InitGuard /\ [][NextCalls]_vars

(* C16. Guard against Promote after RLock: in part_000, Promote() by a    *)
(* goroutine that holds only a plain RLock() never returns normally, also  *)
(* when another goroutine holds the lock demoted.                          *)
C16_GuardStopsPlainPromote ==
    variant = "part_000" =>
        \A t \in Threads : routine[t] = plainPromote => ip[t] <= 2

----------------------------------------------------------------------------
(* Goroutines that release what they did not acquire, beside holders. *)

strayUnlock == <<"Unlock">>

strayRUnlock == <<"RUnlock">>

StrayRoutines == <<WriterPairs(0), reader, strayUnlock, strayRUnlock>>

InitStray == InitWith(Assignments(NThreads, StrayRoutines))

SpecStray == InitStray /\ [][NextCalls]_vars

(* Goroutine t, which has no acquisition, is about to call its release m. *)
AtStray(t, m) ==
    /\ fatal = ""
    /\ routine[t] = <<m>>
    /\ ip[t] = 1 /\ idx[t] = 1 /\ mpc[t] = "start"

(* The first step of t's call raises no fatal error. *)
Accepted(t) == ENABLED (MotexStep(t) /\ fatal' = "")

(* The acquisitions by method a, over all goroutines, that no call of the *)
(* release b has been made for.                                           *)
Outstanding(a, b) ==
    Sum([t \in Threads |-> Returned(t, a)], Threads)
        - Sum([t \in Threads |-> Called(t, b)], Threads)

----------------------------------------------------------------------------
(* Readers that keep issuing RLock(): a reader that has returned from *)
(* RUnlock() starts over.                                              *)

LoopRoutines == <<WriterPairs(1), reader>>

InitLoop == InitWith(Assignments(NThreads, LoopRoutines))

Again(t) ==
    /\ fatal = ""
    /\ routine[t] = reader
    /\ Finished(t)
    /\ ip' = [ip EXCEPT ![t] = 1]
    /\ UNCHANGED <<lockVars, variant, routine, idx, mpc, rtmp, state, old, fatal>>

NextLoop == \E t \in Threads : MotexStep(t) \/ Again(t)

SpecLoop == InitLoop /\ [][NextLoop]_vars /\ Fairness

(* C19. Promote is eventually granted: under fair scheduling a Promote() *)
(* that has been called returns, even when readers keep issuing RLock(). *)
C19_PromoteEventuallyGranted ==
    \A t \in Threads :
        (InMethod(t) /\ Instr(t) = "Promote" /\ Begun(t))
            ~> (Returned(t, "Promote") = 1)

(* Promote() has returned while a reader that called RLock() during it *)
(* still waits.                                                        *)
C19_Witness ==
    \E t, u \in Threads :
        /\ Returned(t, "Promote") = 1
        /\ InMethod(t) /\ Instr(t) = "Unlock" /\ ~Begun(t)
        /\ routine[u] = reader /\ Blocked(u)

----------------------------------------------------------------------------
(* A goroutine that nests shared acquisitions, beside legal writers and *)
(* readers.                                                             *)

nestedReader == Repeat("RLock", MaxNest) \o Repeat("RUnlock", MaxNest)

NestedRoutines == <<nestedReader, WriterPairs(0), WriterPairs(1), reader>>

InitNested == InitWith(Assignments(NFair, NestedRoutines))

SpecNested == InitNested /\ [][NextCalls]_vars /\ Fairness

(* No goroutine can take a step although some have calls left. *)
Stuck ==
    /\ fatal = ""
    /\ ~AllDone
    /\ \A t \in Threads : ~ENABLED MotexStep(t)

(* Goroutine t holds a shared acquisition and its next RLock() waits *)
(* behind an exclusive acquisition that was announced in between.    *)
QueuedBehindWriter(t) ==
    /\ routine[t] = nestedReader
    /\ ReadsHeld(t) >= 1
    /\ InMethod(t) /\ Instr(t) = "RLock" /\ mpc[t] = "sem"
    /\ readerCount < 0

(* C20, as claimed. Nested shared acquisition does not deadlock: in every *)
(* interleaving with goroutines that run legal Lock()...Unlock() cycles,  *)
(* with or without Demote()/Promote(), some goroutine can take a step     *)
(* until all have completed.                                              *)
C20_NestedNeverDeadlocks == ~Stuck

(* C20, amended. A goroutine that nests RLock() completes in every        *)
(* interleaving with goroutines that only run RLock()/RUnlock(); beside   *)
(* goroutines that run Lock()...Unlock() cycles the only runs that do not *)
(* complete are those where the nested RLock() is called while an         *)
(* exclusive acquisition (Lock() or Promote()) is pending: it queues      *)
(* behind that acquisition, which waits for the first RLock().            *)
C20_NestedCompletesWithoutWriter ==
    /\ [](Stuck => \E t \in Threads : QueuedBehindWriter(t))
    /\ (\A t \in Threads : ~IsWriter(t)) => <>AllDone

(* A goroutine holds its nested shared acquisitions while another reader *)
(* holds one too.                                                        *)
C20_Witness ==
    \E t, u \in Threads :
        /\ routine[t] = nestedReader /\ ReadsHeld(t) = MaxNest
        /\ u # t /\ ReadsHeld(u) >= 1

----------------------------------------------------------------------------
(* Goroutines that call Lock, Unlock, RLock and RUnlock in any order, and *)
(* a single sync.RWMutex that receives the same calls.                     *)

RWMethods == {"Lock", "Unlock", "RLock", "RUnlock"}

(* Lock, Unlock, RLock and RUnlock are the same in both files and do not *)
(* touch the guard: one of them is taken.                                *)
InitRW == InitWith({[t \in Threads |-> << >>]}) /\ variant = "motex.go"

(* Goroutine t, between calls, calls method m. The counters of the lock *)
(* are kept within MaxReaders.                                         *)
Call(t, m) ==
    /\ fatal = ""
    /\ Finished(t)
    /\ m = "RLock" => SharedHolders < MaxReaders
    /\ m = "RUnlock" => (readerWait > -MaxReaders /\ writerSem < MaxReaders)
    /\ routine' = [routine EXCEPT ![t] = <<m>>]
    /\ ip' = [ip EXCEPT ![t] = 1]
    /\ UNCHANGED <<lockVars, variant, idx, mpc, rtmp, state, old, fatal>>

NextRW == \E t \in 1..NFair : MotexStep(t) \/ \E m \in RWMethods : Call(t, m)

SpecRW == InitRW /\ [][NextRW]_vars

idle == <<"idle", "">>

(* The position inside sync.RWMutex's method that corresponds to t's *)
(* position inside the Motex method.                                 *)
RefPos(t) ==
    IF ~InMethod(t) THEN idle
    ELSE <<Instr(t),
           CASE Prim(t) = "w.Lock" -> "start"
             [] Prim(t) = "r.Lock" /\ mpc[t] = "start" -> "announce"
             [] Prim(t) = "w.Unlock" -> "unlockw"
             [] OTHER -> mpc[t]>>

(* The state of the sync.RWMutex that corresponds to the Motex's: its *)
(* inner mutex is the write gate.                                     *)
Ref ==
    [rw |-> w, readerCount |-> readerCount, readerWait |-> readerWait,
     writerSem |-> writerSem, readerSem |-> readerSem, rtmp |-> rtmp,
     fatal |-> fatal, pos |-> [t \in Threads |-> RefPos(t)]]

(* sync.RWMutex in state R: goroutine t can take the next step of its *)
(* call.                                                               *)
RefEnabled(R, t) ==
    /\ R.fatal = ""
    /\ R.pos[t] # idle
    /\ R.pos[t] = <<"Lock", "start">> => ~R.rw
    /\ R.pos[t] = <<"Lock", "sem">> => R.writerSem > 0
    /\ R.pos[t] = <<"RLock", "sem">> => R.readerSem > 0

(* sync.RWMutex in state R: the state after the next step of t's call. *)
RefNext(R, t) ==
    LET p == R.pos[t]
        to(m, l) == [R EXCEPT !.pos[t] = <<m, l>>]
        ret == [R EXCEPT !.pos[t] = idle]
    IN  CASE p = <<"Lock", "start">> ->
               [to("Lock", "announce") EXCEPT !.rw = TRUE]
          [] p = <<"Lock", "announce">> ->
               IF R.readerCount # 0
               THEN [to("Lock", "wait") EXCEPT
                        !.readerCount = @ - rwmutexMaxReaders,
                        !.rtmp[t] = R.readerCount]
               ELSE [ret EXCEPT !.readerCount = @ - rwmutexMaxReaders]
          [] p = <<"Lock", "wait">> ->
               [(IF R.readerWait + R.rtmp[t] # 0 THEN to("Lock", "sem") ELSE ret)
                  EXCEPT !.readerWait = @ + R.rtmp[t], !.rtmp[t] = 0]
          [] p = <<"Lock", "sem">> ->
               [ret EXCEPT !.writerSem = @ - 1]
          [] p = <<"Unlock", "start">> ->
               IF R.readerCount + rwmutexMaxReaders >= rwmutexMaxReaders
               THEN [R EXCEPT !.readerCount = @ + rwmutexMaxReaders,
                              !.fatal = "sync: Unlock of unlocked RWMutex"]
               ELSE [to("Unlock", IF R.readerCount + rwmutexMaxReaders > 0
                                  THEN "wake" ELSE "unlockw") EXCEPT
                        !.readerCount = @ + rwmutexMaxReaders,
                        !.rtmp[t] = R.readerCount + rwmutexMaxReaders]
          [] p = <<"Unlock", "wake">> ->
               [to("Unlock", IF R.rtmp[t] > 1 THEN "wake" ELSE "unlockw") EXCEPT
                  !.readerSem = @ + 1, !.rtmp[t] = @ - 1]
          [] p = <<"Unlock", "unlockw">> ->
               IF R.rw
               THEN [ret EXCEPT !.rw = FALSE]
               ELSE [R EXCEPT !.fatal = "sync: unlock of unlocked mutex"]
          [] p = <<"RLock", "start">> ->
               [(IF R.readerCount + 1 < 0 THEN to("RLock", "sem") ELSE ret)
                  EXCEPT !.readerCount = @ + 1]
          [] p = <<"RLock", "sem">> ->
               [ret EXCEPT !.readerSem = @ - 1]
          [] p = <<"RUnlock", "start">> ->
               IF R.readerCount - 1 >= 0
               THEN [ret EXCEPT !.readerCount = @ - 1]
               ELSE IF R.readerCount = 0 \/ R.readerCount = -rwmutexMaxReaders
                    THEN [R EXCEPT !.readerCount = @ - 1,
                                   !.fatal = "sync: RUnlock of unlocked RWMutex"]
                    ELSE [to("RUnlock", "slow") EXCEPT !.readerCount = @ - 1]
          [] p = <<"RUnlock", "slow">> ->
               [ret EXCEPT !.readerWait = @ - 1,
                           !.writerSem = IF R.readerWait - 1 = 0 THEN @ + 1 ELSE @]

(* sync.RWMutex in state R: goroutine t, between calls, calls method m. *)
RefCall(R, t, m) == [R EXCEPT !.pos[t] = <<m, "start">>]

(* C14. Equivalence with a reader-writer mutex: when Demote() and       *)
(* Promote() are never called, every step of the Motex is a step of one *)
(* sync.RWMutex receiving the same calls, or leaves its state the same, *)
(* and in every state each call can go on in the Motex exactly when it  *)
(* can in the sync.RWMutex: the calls return, stay blocked, and are     *)
(* fatal alike.                                                         *)
C14_EquivalentToRWMutex ==
    /\ [][\/ Ref' = Ref
          \/ \E t \in Threads :
                \/ RefEnabled(Ref, t) /\ Ref' = RefNext(Ref, t)
                \/ \E m \in RWMethods :
                      Ref.pos[t] = idle /\ Ref' = RefCall(Ref, t, m)]_vars
    /\ [](\A t \in Threads : RefEnabled(Ref, t) <=> ENABLED MotexStep(t))

(* A Lock() is blocked behind a reader while a further RLock() queues *)
(* behind it, as in a sync.RWMutex.                                   *)
C14_Witness ==
    \E t, u \in Threads :
        /\ InMethod(t) /\ Instr(t) = "Lock" /\ Blocked(t) /\ mpc[t] = "sem"
        /\ InMethod(u) /\ Instr(u) = "RLock" /\ Blocked(u)

====

